---- MODULE Spec2Model ----
(***************************************************************************)
(* Model of the linkinzzz-bot media pipeline.                              *)
(*                                                                         *)
(*   Spec         VideoDownloader.download (utils/ytdlp_utils.py): the     *)
(*                metadata resolution, the format catalog and ranking, and *)
(*                the download_youtube / download_generic cascades.        *)
(*   HandlerSpec  text_private_handler (handlers/text.py) driving          *)
(*                download_post_json (utils/download_utils.py) and         *)
(*                _send_payload.                                           *)
(*                                                                         *)
(* Python None / missing / 0 for a numeric field is written 0, because the *)
(* code only ever tests such fields for truthiness.                        *)
(***************************************************************************)
EXTENDS Integers, Sequences, FiniteSets, TLC

\* ------------------------------------------------------------------ bounds
\* Longest raw format list returned by the metadata-only resolution.
MaxFormats == 4
\* Most directory entries one gallery-dl run leaves behind.
MaxFiles == 3
\* Longest raw format list handed to the catalog functions on their own.
MaxCatalog == 3

\* ------------------------------------------------------- program constants
MAX_SIZE_MB == 50
MiB == 1024 * 1024
TargetHeights == <<1080, 720>>
YtdlpVideoExts == {".mp4", ".mkv", ".webm"}
MAX_MEDIA_GROUP == 10

\* ---------------------------------------------------------------- helpers
Take(s, n) == SubSeq(s, 1, IF n < Len(s) THEN n ELSE Len(s))

\* ------------------------------------------------------------- FormatInfo
\* Raw descriptors as the extraction tool reports them (a dict per format).
\* A key the dict does not hold reads as Absent, a key held with the value
\* None as PyNone; fmt.get("height") gives None in both cases (NoHeight).
Absent == "<absent>"
PyNone == "<None>"
NoHeight == 0 - 1

Fmt(id, h, fs, ac, vc, proto) ==
    [format_id |-> id, height |-> h, filesize |-> fs, filesize_approx |-> 0,
     acodec |-> ac, vcodec |-> vc, protocol |-> proto]

\* A descriptor that carries an estimate of its size.
Approx(fmt, estimate) == [fmt EXCEPT !.filesize_approx = estimate]

RawDescriptors ==
    { Fmt("137", 1080, 0, "mp4a", "avc1", "https"),
      Fmt("96", 1080, 0, "mp4a", "avc1", "m3u8_native"),
      Fmt("22", 720, 0, "mp4a", "avc1", "https"),
      Fmt("95", 720, 0, "mp4a", "avc1", "m3u8_native"),
      Fmt("18", 480, 0, "mp4a", "avc1", "https"),
      Approx(Fmt("400", 1440, 0, "mp4a", "avc1", "https"), 60000000),
      Fmt("299", 1080, 60000000, "none", "avc1", "https"),
      Fmt("140", 0, 0, "mp4a", "none", "https") }

\* FormatInfo.has_audio / has_video: the codec tag is not "none", None or "".
has_audio(f) == f.acodec \notin {"none", PyNone, ""}

has_video(f) == f.vcodec \notin {"none", PyNone, ""}

\* FormatInfo.is_hls: protocol is m3u8 / m3u8_native or contains "hls".
ProtocolsContainingHls == {"hls", "HLS", "hls_native"}

is_hls(f) == f.protocol \in {"m3u8", "m3u8_native"} \/ f.protocol \in ProtocolsContainingHls

\* dict.get(key, default)
Get(value, default) == IF value = Absent THEN default ELSE value

\* parse_format keeping a descriptor whose height is 0.
parse_format_zero_height(fmt) ==
    IF fmt.height = NoHeight THEN <<>>
    ELSE <<[format_id |-> fmt.format_id, height |-> fmt.height,
            filesize |-> IF fmt.filesize # 0 THEN fmt.filesize ELSE fmt.filesize_approx,
            acodec |-> Get(fmt.acodec, "none"), vcodec |-> Get(fmt.vcodec, "none"),
            protocol |-> Get(fmt.protocol, "unknown")]>>

\* parse_format: a descriptor whose height is None or 0 yields None (here:
\* <<>>), otherwise a one-element sequence holding the FormatInfo.
\* filesize is fmt.get("filesize") or fmt.get("filesize_approx").
parse_format(fmt) ==
    IF fmt.height \in {NoHeight, 0} THEN <<>>
    ELSE <<[format_id |-> fmt.format_id, height |-> fmt.height,
            filesize |-> IF fmt.filesize # 0 THEN fmt.filesize ELSE fmt.filesize_approx,
            acodec |-> Get(fmt.acodec, "none"), vcodec |-> Get(fmt.vcodec, "none"),
            protocol |-> Get(fmt.protocol, "unknown")]>>

\* The sort key with the heights in rising order.
KeyLessRisingHeight(a, b) ==
    \/ (~is_hls(a)) /\ is_hls(b)
    \/ is_hls(a) = is_hls(b) /\ a.height < b.height

\* sort key (f.is_hls, -f.height), compared as Python compares tuples.
KeyLess(a, b) ==
    \/ (~is_hls(a)) /\ is_hls(b)
    \/ is_hls(a) = is_hls(b) /\ a.height > b.height

\* list.sort is stable: x goes after every element whose key is not greater.
RECURSIVE InsertSorted(_, _)
InsertSorted(x, s) ==
    IF s = <<>> THEN <<x>>
    ELSE IF KeyLess(x, Head(s)) THEN <<x>> \o s
    ELSE <<Head(s)>> \o InsertSorted(x, Tail(s))

RECURSIVE SortCandidates(_)
SortCandidates(s) ==
    IF s = <<>> THEN <<>>
    ELSE InsertSorted(s[Len(s)], SortCandidates(SubSeq(s, 1, Len(s) - 1)))

\* The flagship filter without its test for a video stream.
YoutubeKeepAudioOnly(info) == info.height <= 1080 /\ has_audio(info)

YoutubeKeep(info) == info.height <= 1080 /\ has_audio(info) /\ has_video(info)

RECURSIVE FilterParsed(_, _)
FilterParsed(formats, youtube) ==
    IF formats = <<>> THEN <<>>
    ELSE LET info == parse_format(Head(formats))
             rest == FilterParsed(Tail(formats), youtube)
         IN IF info = <<>> THEN rest
            ELSE IF youtube /\ ~YoutubeKeep(info[1]) THEN rest
            ELSE info \o rest

get_youtube_formats(formats) == SortCandidates(FilterParsed(formats, TRUE))

get_generic_formats(formats) == SortCandidates(FilterParsed(formats, FALSE))

\* ------------------------------------------------- VideoDownloader state
VARIABLES
    pc,          \* position of download(): idle, extracting, youtube, generic,
                 \* fetching, done, cancelled
    info,        \* the info document of the metadata-only resolution
    candidates,  \* ranked FormatInfo list handed to the cascade
    attempts,    \* the try_format / try_smart_download calls made so far, in order
    tmpdir,      \* TRUE while the TemporaryDirectory of the request exists
    tmpfiles,    \* the files in the workspace
    result,      \* what download() returned
    thread,      \* what the worker thread started by asyncio.to_thread is running
    fetch_raised \* whether the last run of YoutubeDL.download raised

dlvars == <<pc, info, candidates, attempts, tmpdir, tmpfiles, result, thread,
            fetch_raised>>

\* ------------------------------------------------ text_private_handler state
VARIABLES
    hpc,         \* position of the handler: idle, download_post, files, fixing, send,
                 \* sending, done, cancelled
    status,      \* the status message: whether it still exists, and its text
    progress,    \* the strings handed to progress_callback, in order
    replies,     \* direct replies to the user that are not the status message
    post_tmpdir, \* TRUE while the TemporaryDirectory of download_post_json exists
    files,       \* media_files returned by download_post
    caption,     \* caption returned by download_post
    content,     \* content list being built by download_post_json
    payload,     \* what download_post_json returned
    media,       \* the InputMedia list built by _send_payload
    sent,        \* the messages delivered to the user, in order
    admin,       \* notes sent by _notify_admin, in order
    error,       \* the exception that ended the request, if any
    too_large,   \* TRUE once a size test of download_post_json has failed
    procs,       \* the subprocesses started by the request that are still running
    fixes,       \* the fix_video calls made so far: position of the file, in order
    probes       \* the get_metadata calls made so far, in order

hvars == <<hpc, status, progress, replies, post_tmpdir, files, caption, content, payload,
           media, sent, admin, error, too_large, procs, fixes, probes>>

vars == <<dlvars, hvars>>

\* Values a try_* call or download() can yield.
None == [tag |-> "none", attempt |-> 0, len |-> 0]

Zero == [tag |-> "zero", attempt |-> 0, len |-> 0]

Bytes(file) == [tag |-> "bytes", attempt |-> file.attempt, len |-> file.size]

\* Python truthiness of a result: None, 0 and b"" are falsy.
Truthy(r) == r.tag = "bytes" /\ r.len > 0

\* What one run of the extraction tool does: it raises, or it returns having
\* written zero or one file into the workspace.
FetchedSizes == {0, 1000, MAX_SIZE_MB * MiB, MAX_SIZE_MB * MiB + 1}

ToolOutcomes ==
    {[raised |-> TRUE, written |-> {}]}
    \cup {[raised |-> FALSE, written |-> w] :
            w \in {{}, {[ext |-> ".m4a", size |-> 1000]}}
                  \cup {{[ext |-> ".mp4", size |-> s]} : s \in FetchedSizes}}

\* The files the tool run of attempt number n leaves in the workspace.
FilesAfterFetch(tool, n) ==
    {[attempt |-> n, ext |-> f.ext, size |-> f.size] : f \in tool.written}

\* clear_tmpdir keeping what it finds.
clear_tmpdir_keeping(dir_files) == dir_files

\* clear_tmpdir: every regular file of the workspace is removed.
clear_tmpdir(dir_files) == {}

\* download_format / download_with_smart_format after the tool run: the
\* path of a file of the workspace with a video extension (files[0] of the
\* listing), or None (<<>>) on an exception or when there is none.
download_format(tool, dir_files) ==
    LET found == {f \in dir_files : f.ext \in YtdlpVideoExts}
    IN IF tool.raised \/ found = {} THEN <<>>
       ELSE <<CHOOSE f \in found : \A g \in found : f.attempt <= g.attempt>>

\* check_file_size: size / 1024 / 1024 <= max_size_mb. The division by a
\* power of two is exact in binary floating point.
check_file_size(file) == file.size <= MAX_SIZE_MB * MiB

\* The declared-size test of try_format left out.
DeclaredNeverTooLarge(format_info) == FALSE

\* FormatInfo.filesize_mb is truthy and above max_size_mb.
DeclaredTooLarge(format_info) ==
    format_info.filesize # 0 /\ format_info.filesize > MAX_SIZE_MB * MiB

\* try_smart_download, and try_format after its declared-size test.
FetchAndCheck(tool, dir_files) ==
    LET filepath == download_format(tool, dir_files)
    IN IF filepath = <<>> THEN None
       ELSE IF check_file_size(filepath[1]) THEN Bytes(filepath[1])
       ELSE None

try_format(format_info, tool, dir_files) ==
    IF DeclaredTooLarge(format_info) THEN None ELSE FetchAndCheck(tool, dir_files)

try_smart_download(tool, dir_files) == FetchAndCheck(tool, dir_files)

\* Positions of the ranked list, so that a list comprehension
\* [f for f in formats if ...] keeps track of which candidates it selected.
Indices(formats) == [i \in 1..Len(formats) |-> i]

FormatAttempt(formats, i) ==
    [kind |-> "format", idx |-> i, height |-> formats[i].height, hls |-> is_hls(formats[i])]

SmartAttempt(h) == [kind |-> "smart", idx |-> 0, height |-> h, hls |-> FALSE]

AsAttempts(formats, idxs) == [k \in 1..Len(idxs) |-> FormatAttempt(formats, idxs[k])]

\* YoutubeTier with the slice [:3] of the non-segmented candidates widened.
YoutubeTierWideSlice(formats, target_height) ==
    LET NonHls(i) == formats[i].height = target_height /\ ~is_hls(formats[i])
        Hls(i) == formats[i].height = target_height /\ is_hls(formats[i])
        matching_formats == SelectSeq(Indices(formats), NonHls)
        hls_formats == SelectSeq(Indices(formats), Hls)
    IN AsAttempts(formats, Take(matching_formats, 4))
       \o AsAttempts(formats, Take(hls_formats, 2))
       \o <<SmartAttempt(target_height)>>

\* The loop body of download_youtube taking every candidate up to
\* target_height instead of those at target_height.
YoutubeTierUpTo(formats, target_height) ==
    LET NonHls(i) == formats[i].height <= target_height /\ ~is_hls(formats[i])
        Hls(i) == formats[i].height <= target_height /\ is_hls(formats[i])
        matching_formats == SelectSeq(Indices(formats), NonHls)
        hls_formats == SelectSeq(Indices(formats), Hls)
    IN AsAttempts(formats, Take(matching_formats, 3))
       \o AsAttempts(formats, Take(hls_formats, 2))
       \o <<SmartAttempt(target_height)>>

\* One pass of the loop body of download_youtube for target_height, as the
\* attempts it makes when every one of them fails.
YoutubeTier(formats, target_height) ==
    LET NonHls(i) == formats[i].height = target_height /\ ~is_hls(formats[i])
        Hls(i) == formats[i].height = target_height /\ is_hls(formats[i])
        matching_formats == SelectSeq(Indices(formats), NonHls)
        hls_formats == SelectSeq(Indices(formats), Hls)
    IN AsAttempts(formats, Take(matching_formats, 3))
       \o AsAttempts(formats, Take(hls_formats, 2))
       \o <<SmartAttempt(target_height)>>

\* download_youtube iterating the target heights in ascending order.
YoutubeAttemptsLowFirst(formats) ==
    YoutubeTier(formats, TargetHeights[2]) \o YoutubeTier(formats, TargetHeights[1])

\* download_youtube: for target_height in (1080, 720).
YoutubeAttempts(formats) ==
    YoutubeTier(formats, TargetHeights[1]) \o YoutubeTier(formats, TargetHeights[2])

\* download_generic topping up with two segmented candidates whatever the
\* number of non-segmented ones already taken.
GenericAttemptsFullTopUp(formats) ==
    LET NonHls(i) == ~is_hls(formats[i])
        Hls(i) == is_hls(formats[i])
        non_hls == Take(SelectSeq(Indices(formats), NonHls), 2)
        hls == IF Len(non_hls) < 2
               THEN Take(SelectSeq(Indices(formats), Hls), 2)
               ELSE <<>>
    IN AsAttempts(formats, non_hls) \o AsAttempts(formats, hls)

\* download_generic without the segmented top-up.
GenericAttemptsNoTopUp(formats) ==
    LET NonHls(i) == ~is_hls(formats[i])
    IN AsAttempts(formats, Take(SelectSeq(Indices(formats), NonHls), 2))

\* download_generic.
GenericAttempts(formats) ==
    LET NonHls(i) == ~is_hls(formats[i])
        Hls(i) == is_hls(formats[i])
        non_hls == Take(SelectSeq(Indices(formats), NonHls), 2)
        hls == IF Len(non_hls) < 2
               THEN Take(SelectSeq(Indices(formats), Hls), 2 - Len(non_hls))
               ELSE <<>>
    IN AsAttempts(formats, non_hls) \o AsAttempts(formats, hls)

\* str.lower() on the extractor keys the model draws.
ExtractorKeys == {"Youtube", "youtube", "Instagram", ""}

Lower(s) == CASE s = "Youtube" -> "youtube"
              [] s = "Instagram" -> "instagram"
              [] OTHER -> s

RECURSIVE SeqsUpTo(_, _)
SeqsUpTo(S, n) ==
    IF n = 0 THEN {<<>>}
    ELSE LET shorter == SeqsUpTo(S, n - 1)
         IN shorter \cup {Append(s, x) : s \in {t \in shorter : Len(t) = n - 1}, x \in S}

\* A format list rich enough to fill every sub-tier of both target heights,
\* in the unranked order the extraction tool may report it.
RichFormatList ==
    LET hls720 == Fmt("95", 720, 0, "mp4a", "avc1", "m3u8_native")
        hls1080 == Fmt("96", 1080, 0, "mp4a", "avc1", "m3u8_native")
        web720 == Fmt("22", 720, 0, "mp4a", "avc1", "https")
        web1080 == Fmt("137", 1080, 0, "mp4a", "avc1", "https")
        big720 == Fmt("136", 720, 60000000, "mp4a", "avc1", "https")
    IN <<big720, hls720, web720, hls1080, web1080, hls720, web720, hls1080, web1080,
         hls720, web720, hls1080, web1080, web720, web1080>>

RawFormatLists == SeqsUpTo(RawDescriptors, MaxFormats) \cup {RichFormatList}

NoInfo == [resolved |-> FALSE, extractor_key |-> "", formats |-> <<>>]

DlInit ==
    /\ pc = "idle"
    /\ info = NoInfo
    /\ candidates = <<>>
    /\ attempts = <<>>
    /\ tmpdir = FALSE
    /\ tmpfiles = {}
    /\ result = None
    /\ thread = "none"
    /\ fetch_raised = FALSE

\* Leaving the with-block: the TemporaryDirectory is removed with its files.
Return(r) ==
    /\ result' = r
    /\ pc' = "done"
    /\ tmpdir' = FALSE
    /\ tmpfiles' = {}
    /\ thread' = "none"

\* download(): enter the with-block and start the metadata-only resolution.
Download ==
    /\ pc = "idle"
    /\ pc' = "extracting"
    /\ tmpdir' = TRUE
    /\ thread' = "extract_info"
    /\ UNCHANGED <<info, candidates, attempts, tmpfiles, result, fetch_raised>>
    /\ UNCHANGED hvars

\* extract_info raised: print and return 0.
ExtractInfoRaises ==
    /\ pc = "extracting"
    /\ Return(Zero)
    /\ UNCHANGED <<info, candidates, attempts, fetch_raised>>
    /\ UNCHANGED hvars

\* extract_info returned: route on the extractor key, rank the candidates,
\* return 0 when there are none, otherwise enter the cascade.
ExtractInfo ==
    /\ pc = "extracting"
    /\ \E key \in ExtractorKeys, formats \in RawFormatLists :
        LET youtube == Lower(key) = "youtube"
            ranked == IF youtube THEN get_youtube_formats(formats)
                      ELSE get_generic_formats(formats)
        IN /\ info' = [resolved |-> TRUE, extractor_key |-> key, formats |-> formats]
           /\ candidates' = ranked
           /\ IF ranked = <<>>
              THEN Return(Zero)
              ELSE /\ pc' = IF youtube THEN "youtube" ELSE "generic"
                   /\ thread' = "none"
                   /\ UNCHANGED <<tmpdir, tmpfiles, result>>
    /\ UNCHANGED <<attempts, fetch_raised>>
    /\ UNCHANGED hvars

\* The cascade the request is in, and the attempts it makes when all fail.
CascadePc == IF Lower(info.extractor_key) = "youtube" THEN "youtube" ELSE "generic"

Plan ==
    IF Lower(info.extractor_key) = "youtube" THEN YoutubeAttempts(candidates)
    ELSE GenericAttempts(candidates)

Logged(a, invoked, tool, r) ==
    [kind |-> a.kind, idx |-> a.idx, height |-> a.height, hls |-> a.hls,
     invoked |-> invoked, ok |-> Truthy(r)]

\* The cascade with an exception of the tool leaving download() uncaught.
AfterAttemptUncaught(plan, a, invoked, tool, dir_files, r) ==
    LET n == Len(attempts) + 1
    IN /\ attempts' = Append(attempts, Logged(a, invoked, tool, r))
       /\ fetch_raised' = (invoked /\ tool.raised)
       /\ IF Truthy(r) THEN Return(r)
          ELSE IF n = Len(plan) \/ (invoked /\ tool.raised) THEN Return(Zero)
          ELSE /\ tmpfiles' = dir_files
               /\ pc' = CascadePc
               /\ thread' = "none"
               /\ UNCHANGED <<tmpdir, result>>
       /\ UNCHANGED <<info, candidates>>

\* The cascade after one attempt: return the first truthy result, go on to
\* the next attempt, or return 0 when the loops are exhausted.
AfterAttempt(plan, a, invoked, tool, dir_files, r) ==
    LET n == Len(attempts) + 1
    IN /\ attempts' = Append(attempts, Logged(a, invoked, tool, r))
       /\ fetch_raised' = (invoked /\ tool.raised)
       /\ IF Truthy(r) THEN Return(r)
          ELSE IF n = Len(plan) THEN Return(Zero)
          ELSE /\ tmpfiles' = dir_files
               /\ pc' = CascadePc
               /\ thread' = "none"
               /\ UNCHANGED <<tmpdir, result>>
       /\ UNCHANGED <<info, candidates>>

NoTool == [raised |-> FALSE, written |-> {}]

\* try_format / try_smart_download up to the await of the worker thread:
\* the declared-size test answers at once, otherwise the workspace is
\* cleared and the tool is started.
CascadeStep(plan, kind) ==
    /\ Len(attempts) < Len(plan)
    /\ LET a == plan[Len(attempts) + 1]
       IN /\ a.kind = kind
          /\ IF kind = "format" /\ DeclaredTooLarge(candidates[a.idx])
             THEN AfterAttempt(plan, a, FALSE, NoTool, tmpfiles,
                               try_format(candidates[a.idx], NoTool, tmpfiles))
             ELSE /\ tmpfiles' = clear_tmpdir(tmpfiles)
                  /\ pc' = "fetching"
                  /\ thread' = "download"
                  /\ fetch_raised' = FALSE
                  /\ UNCHANGED <<info, candidates, attempts, tmpdir, result>>

DownloadYoutubeTryFormat ==
    /\ pc = "youtube"
    /\ CascadeStep(YoutubeAttempts(candidates), "format")
    /\ UNCHANGED hvars

DownloadYoutubeTrySmart ==
    /\ pc = "youtube"
    /\ CascadeStep(YoutubeAttempts(candidates), "smart")
    /\ UNCHANGED hvars

DownloadGenericTryFormat ==
    /\ pc = "generic"
    /\ IF GenericAttempts(candidates) = <<>>
       THEN Return(Zero) /\ UNCHANGED <<info, candidates, attempts, fetch_raised>>
       ELSE CascadeStep(GenericAttempts(candidates), "format")
    /\ UNCHANGED hvars

\* The worker thread is done: YoutubeDL.download returned or raised, and
\* try_format / try_smart_download goes on to its answer.
FetchReturns ==
    /\ pc = "fetching"
    /\ LET n == Len(attempts) + 1
           a == Plan[n]
       IN \E tool \in ToolOutcomes :
            LET dir_files == tmpfiles \cup FilesAfterFetch(tool, n)
            IN AfterAttempt(Plan, a, TRUE, tool, dir_files,
                            IF a.kind = "smart" THEN try_smart_download(tool, dir_files)
                            ELSE try_format(candidates[a.idx], tool, dir_files))
    /\ UNCHANGED hvars

\* A file the tool is writing while nothing waits for it any more.
OrphanFile == [attempt |-> 0, ext |-> ".mp4", size |-> 1000]

\* The task running download() is cancelled at an await: CancelledError
\* leaves the with-block, whose exit removes the directory, and the frame
\* with its locals is dropped. The worker thread of asyncio.to_thread is not
\* interrupted: a download that makes a file while the tree is being removed
\* leaves rmdir with a directory that is not empty.
Cancel ==
    /\ pc \in {"extracting", "fetching"}
    /\ pc' = "cancelled"
    /\ \/ tmpdir' = FALSE /\ tmpfiles' = {}
       \/ thread = "download" /\ tmpdir' = TRUE /\ tmpfiles' = {OrphanFile}
    /\ info' = NoInfo
    /\ candidates' = <<>>
    /\ attempts' = <<>>
    /\ fetch_raised' = FALSE
    /\ UNCHANGED <<result, thread>>
    /\ UNCHANGED hvars

\* The worker thread of a cancelled request runs to its end; a download may
\* still write its file, creating the directory of its output path anew.
OrphanThreadEnds ==
    /\ pc = "cancelled"
    /\ thread # "none"
    /\ thread' = "none"
    /\ \/ UNCHANGED <<tmpdir, tmpfiles>>
       \/ /\ thread = "download"
          /\ tmpdir' = TRUE
          /\ tmpfiles' = {OrphanFile}
    /\ UNCHANGED <<pc, info, candidates, attempts, result, fetch_raised>>
    /\ UNCHANGED hvars

\* ------------------------------------------------ text_private_handler
\* Status strings of handlers/text.py (lines 32, 94, 99, 106-144, and
\* download_utils.py line 224), written as ASCII tags.
MSG_NOT_A_LINK == "not_a_link"
MSG_NO_YOUTUBE == "no_youtube"
MSG_LOADING == "loading"
MSG_PROCESSING == "processing"
MSG_SENDING == "sending"
MSG_INAPPROPRIATE == "inappropriate_try_later_developer_notified"
MSG_NO_MEDIA == "no_media_in_post"
MSG_TOO_LARGE == "files_too_large"
MSG_UNSUPPORTED == "unsupported_site"
MSG_DOWNLOAD_ERROR == "download_error_try_later"
MSG_UNKNOWN == "telegram_refuses_or_error_try_again"

\* core/errors.py and the builtin exceptions met on the way: each class with
\* all of its base classes.
Bases(type) ==
    CASE type = "InappropriateContent" -> {"InappropriateContent", "DownloadError", "Exception"}
      [] type = "NoMedia" -> {"NoMedia", "DownloadError", "Exception"}
      [] type = "NoVideo" -> {"NoVideo", "NoMedia", "DownloadError", "Exception"}
      [] type = "UnsupportedSite" -> {"UnsupportedSite", "DownloadError", "Exception"}
      [] type = "TooLarge" -> {"TooLarge", "DownloadError", "Exception"}
      [] type = "DownloadError" -> {"DownloadError", "Exception"}
      [] OTHER -> {type, "Exception"}

Exc(type, arg) == [type |-> type, arg |-> arg]

NoError == Exc("", "")

\* The except clauses of text_private_handler in their textual order: the
\* status string and the note for the operator ("" when none is sent).
ExceptClause(e) ==
    LET b == Bases(e.type)
    IN IF "InappropriateContent" \in b THEN [text |-> MSG_INAPPROPRIATE, note |-> "stale_cookies"]
       ELSE IF "NoMedia" \in b THEN [text |-> MSG_NO_MEDIA, note |-> ""]
       ELSE IF "TooLarge" \in b THEN [text |-> MSG_TOO_LARGE, note |-> ""]
       ELSE IF "UnsupportedSite" \in b THEN [text |-> MSG_UNSUPPORTED, note |-> "tried_to_download"]
       ELSE IF "DownloadError" \in b THEN [text |-> MSG_DOWNLOAD_ERROR, note |-> "download_error"]
       ELSE [text |-> MSG_UNKNOWN, note |-> "tried_to_download_unknown_error"]

\* status.edit_text raises TelegramBadRequest when the message is gone and
\* when the new text is the text it has.
EditTextRaises(st, step) == ~st.exists \/ st.text = step

\* progress_callback: edit the status message; TelegramBadRequest is
\* swallowed.
Edited(st, step) == IF st.exists THEN [st EXCEPT !.text = step] ELSE st

\* progress_callback without its except clause.
CallbackRaisesUncaught(st, step) == EditTextRaises(st, step)

\* The exception classes named by the except clause of progress_callback.
CaughtByCallback == {"TelegramBadRequest"}

\* Whether the exception of edit_text leaves progress_callback.
CallbackRaises(st, step) ==
    EditTextRaises(st, step) /\ "TelegramBadRequest" \notin CaughtByCallback

\* An exception leaves progress_callback inside the try block: the clause
\* for Exception calls progress_callback again, and the exception of that
\* call leaves the handler.
Abort(step) ==
    /\ error' = Exc("TelegramBadRequest", "edit_text")
    /\ progress' = progress \o <<step, MSG_UNKNOWN>>
    /\ post_tmpdir' = FALSE
    /\ hpc' = "done"
    /\ UNCHANGED <<status, admin>>

\* An exception reaches the except clauses: the with-block of
\* download_post_json is left, the clause reports and notifies.
Raise(e, steps) ==
    LET clause == ExceptClause(e)
        shown == IF steps = <<>> THEN status ELSE Edited(status, steps[Len(steps)])
    IN /\ progress' = progress \o steps \o <<clause.text>>
       /\ post_tmpdir' = FALSE
       /\ hpc' = "done"
       /\ IF CallbackRaises(shown, clause.text)
          THEN /\ error' = Exc("TelegramBadRequest", "edit_text")
               /\ status' = shown
               /\ UNCHANGED admin
          ELSE /\ error' = e
               /\ status' = Edited(status, clause.text)
               /\ admin' = IF clause.note = "" THEN admin ELSE Append(admin, clause.note)

\* The exception download_post raises for a failed gallery-dl run, from the
\* substrings found in the lower-cased message.
DownloadPostError(msg) ==
    IF msg.inappropriate THEN Exc("ValueError", "INAPPROPRIATE_CONTENT")
    ELSE IF msg.no_video \/ msg.no_results THEN Exc("ValueError", "NO_VIDEO")
    ELSE Exc("ValueError", "UNABLE_TO_DOWNLOAD")

ToolMessages == [inappropriate : BOOLEAN, no_video : BOOLEAN, no_results : BOOLEAN]

IMAGE_EXTS == {".jpg", ".jpeg", ".png", ".webp", ".gif"}
VIDEO_EXTS == {".mp4", ".mov", ".mkv", ".webm"}
CODECS_TO_REFORMAT == {"vp9"}

\* round(x / 1024 / 1024, 2) in hundredths of a megabyte: Python rounds the
\* exact quotient to the nearest hundredth, ties to even.
RoundHalfEven(num, den) ==
    LET q == num \div den
        r == num % den
    IN IF 2 * r > den \/ (2 * r = den /\ q % 2 = 1) THEN q + 1 ELSE q

SizeMbHundredths(size) == (size \div MiB) * 100 + RoundHalfEven((size % MiB) * 100, MiB)

\* size_mb > MAX_SIZE_MB in download_post_json.
SizeMbExceeds(size) == SizeMbHundredths(size) > MAX_SIZE_MB * 100

\* What gallery-dl leaves in the directory, in os.listdir order.
File(ext, size, codec) == [ext |-> ext, size |-> size, codec |-> codec]

PostFiles ==
    { File(".jpg", 0, ""), File(".jpg", 1000, ""),
      File(".mp4", 1000, "h264"),
      File(".mp4", MAX_SIZE_MB * MiB + 1, "h264"),
      File(".mp4", 52434042, "h264"),
      File(".mp4", 52434043, "h264"),
      File(".mp4", 1000, "vp9"),
      File(".json", 200, "") }

\* A post of eleven pictures and videos behind a picture of zero bytes,
\* with its metadata document.
AlbumListing ==
    LET empty == File(".jpg", 0, "")
        picture == File(".jpg", 1000, "")
        video == File(".mp4", 1000, "h264")
    IN <<empty, picture, video, picture, video, picture, video, picture, video,
         picture, video, picture, File(".json", 200, "")>>

PostListings == SeqsUpTo(PostFiles, MaxFiles) \cup {AlbumListing}

IsMedia(file) == file.ext \in IMAGE_EXTS \/ file.ext \in VIDEO_EXTS

\* _pick_caption on the first metadata document of the listing.
PickCaption(listing) ==
    IF \E i \in 1..Len(listing) : listing[i].ext = ".json" THEN "post_text" ELSE ""

\* ffmpeg run by fix_video: a non-zero exit, or a re-encoded file.
FixOutcomes ==
    {[ok |-> FALSE, size |-> 0]}
    \cup {[ok |-> TRUE, size |-> n] : n \in {1000, MAX_SIZE_MB * MiB + 1, 52434043}}

\* _b64 and base64.b64decode: the text carries the bytes it encodes.
B64(data) == [b64 |-> data]

B64Decode(text) == text.b64

Data(k, size, fixed) == [file |-> k, len |-> size, fixed |-> fixed]

Item(type, data) == [type |-> type, data |-> B64(data)]

NoPayload == [tag |-> "unset", caption |-> "", content |-> <<>>]

NonePayload == [tag |-> "None", caption |-> "", content |-> <<>>]

Payload(c, items) == [tag |-> "dict", caption |-> c, content |-> items]

HInit ==
    /\ hpc = "idle"
    /\ status = [exists |-> FALSE, text |-> ""]
    /\ progress = <<>>
    /\ replies = <<>>
    /\ post_tmpdir = FALSE
    /\ files = <<>>
    /\ caption = ""
    /\ content = <<>>
    /\ payload = NoPayload
    /\ media = <<>>
    /\ sent = <<>>
    /\ admin = <<>>
    /\ error = NoError
    /\ too_large = FALSE
    /\ procs = {}
    /\ fixes = <<>>
    /\ probes = <<>>

\* text_private_handler up to the await of gallery-dl in download_post: the
\* URL tests, _make_progress, the first progress update, entering the
\* with-block of download_post_json, starting the subprocess.
TextPrivateHandler ==
    /\ hpc = "idle"
    /\ \E text \in [is_url : BOOLEAN, youtube : BOOLEAN] :
         IF ~text.is_url
         THEN /\ replies' = Append(replies, MSG_NOT_A_LINK)
              /\ hpc' = "done"
              /\ UNCHANGED <<status, progress, post_tmpdir, procs, admin, error>>
         ELSE IF text.youtube
         THEN /\ replies' = Append(replies, MSG_NO_YOUTUBE)
              /\ hpc' = "done"
              /\ UNCHANGED <<status, progress, post_tmpdir, procs, admin, error>>
         ELSE LET replied == [exists |-> TRUE, text |-> MSG_LOADING]
              IN /\ status' = replied
                 /\ UNCHANGED <<replies, admin>>
                 /\ IF CallbackRaises(replied, MSG_LOADING)
                    THEN /\ error' = Exc("TelegramBadRequest", "edit_text")
                         /\ progress' = progress \o <<MSG_LOADING, MSG_UNKNOWN>>
                         /\ hpc' = "done"
                         /\ UNCHANGED <<post_tmpdir, procs>>
                    ELSE /\ progress' = Append(progress, MSG_LOADING)
                         /\ post_tmpdir' = TRUE
                         /\ procs' = {"gallery-dl"}
                         /\ hpc' = "download_post"
                         /\ UNCHANGED error
    /\ UNCHANGED <<files, caption, content, payload, media, sent, too_large, fixes, probes>>
    /\ UNCHANGED dlvars

\* The user deletes the status message while the request is running.
StatusVanishes ==
    /\ hpc \notin {"idle", "done", "cancelled"}
    /\ status.exists
    /\ status' = [status EXCEPT !.exists = FALSE]
    /\ UNCHANGED <<hpc, progress, replies, post_tmpdir, files, caption, content, payload,
                   media, sent, admin, error, too_large, procs, fixes, probes>>
    /\ UNCHANGED dlvars

\* download_post: gallery-dl cannot be run or exits with a non-zero status.
DownloadPostFails ==
    /\ hpc = "download_post"
    /\ \E msg \in ToolMessages : Raise(DownloadPostError(msg), <<>>)
    /\ procs' = {}
    /\ UNCHANGED <<replies, files, caption, content, payload, media, sent, too_large,
                   fixes, probes>>
    /\ UNCHANGED dlvars

\* download_post: gallery-dl exits with status 0; pick the caption and the
\* media files, raise when there is none.
DownloadPost ==
    /\ hpc = "download_post"
    /\ \E listing \in PostListings :
         LET media_files == SelectSeq(listing, IsMedia)
         IN IF media_files = <<>>
            THEN /\ Raise(Exc("ValueError", "NO_FILES_IN_DIRECTORY"), <<>>)
                 /\ UNCHANGED <<files, caption>>
            ELSE /\ files' = media_files
                 /\ caption' = PickCaption(listing)
                 /\ hpc' = "files"
                 /\ UNCHANGED <<status, progress, post_tmpdir, admin, error>>
    /\ procs' = {}
    /\ UNCHANGED <<replies, content, payload, media, sent, too_large, fixes, probes>>
    /\ UNCHANGED dlvars

\* download_post_json returns: the with-block is left.
ReturnFromPost(p) ==
    /\ payload' = p
    /\ post_tmpdir' = FALSE
    /\ hpc' = "send"

\* After an item was appended: next file, or return the payload.
Appended(item) ==
    /\ content' = Append(content, item)
    /\ IF Len(content) + 1 = Len(files)
       THEN ReturnFromPost(Payload(caption, Append(content, item)))
       ELSE hpc' = "files" /\ UNCHANGED <<payload, post_tmpdir>>

\* get_metadata was called on file k, before or after its re-encode.
Probe(k, fixed) == [file |-> k, fixed |-> fixed]

\* One pass of the loop over the files in download_post_json; for a video
\* whose codec is to be re-encoded, up to the await of ffmpeg in fix_video.
ProcessFile ==
    /\ hpc = "files"
    /\ LET k == Len(content) + 1
           file == files[k]
       IN IF SizeMbExceeds(file.size)
          THEN /\ ReturnFromPost(NonePayload)
               /\ too_large' = TRUE
               /\ UNCHANGED <<content, status, progress, procs, fixes, probes, admin, error>>
          ELSE IF file.ext \in IMAGE_EXTS
          THEN /\ Appended(Item("image", Data(k, file.size, FALSE)))
               /\ UNCHANGED <<status, progress, too_large, procs, fixes, probes, admin, error>>
          ELSE IF file.codec \in CODECS_TO_REFORMAT
          THEN /\ probes' = Append(probes, Probe(k, FALSE))
               /\ UNCHANGED <<content, payload, too_large>>
               /\ IF CallbackRaises(status, MSG_PROCESSING)
                  THEN Abort(MSG_PROCESSING) /\ UNCHANGED <<fixes, procs>>
                  ELSE /\ progress' = Append(progress, MSG_PROCESSING)
                       /\ status' = Edited(status, MSG_PROCESSING)
                       /\ fixes' = Append(fixes, k)
                       /\ procs' = {"ffmpeg"}
                       /\ hpc' = "fixing"
                       /\ UNCHANGED <<post_tmpdir, admin, error>>
          ELSE /\ probes' = Append(probes, Probe(k, FALSE))
               /\ Appended(Item("video", Data(k, file.size, FALSE)))
               /\ UNCHANGED <<status, progress, too_large, procs, fixes, admin, error>>
    /\ UNCHANGED <<replies, files, caption, media, sent>>
    /\ UNCHANGED dlvars

\* The re-encoded file accepted without a second size test.
FixedFileUnchecked(size) == FALSE

\* The size test of download_post_json on the re-encoded file.
FixedFileExceeds(size) == SizeMbExceeds(size)

\* ffmpeg has exited: fix_video raises on a non-zero status, otherwise
\* download_post_json measures the new file, probes it and reads its bytes.
FixVideoReturns ==
    /\ hpc = "fixing"
    /\ procs' = {}
    /\ LET k == Len(content) + 1
       IN \E fix \in FixOutcomes :
            IF ~fix.ok
            THEN /\ Raise(Exc("RuntimeError", "ffmpeg"), <<>>)
                 /\ UNCHANGED <<content, payload, too_large, probes>>
            ELSE /\ UNCHANGED <<status, progress, admin, error>>
                 /\ IF FixedFileExceeds(fix.size)
                    THEN /\ ReturnFromPost(NonePayload)
                         /\ too_large' = TRUE
                         /\ UNCHANGED <<content, probes>>
                    ELSE /\ probes' = Append(probes, Probe(k, TRUE))
                         /\ Appended(Item("video", Data(k, fix.size, TRUE)))
                         /\ UNCHANGED too_large
    /\ UNCHANGED <<replies, files, caption, media, sent, fixes>>
    /\ UNCHANGED dlvars

\* The task running the handler is cancelled at the await of a subprocess:
\* CancelledError is no Exception, so it passes download_post's handler and
\* the except clauses of text_private_handler; the with-block of
\* download_post_json is left and its exit removes the directory, unless
\* gallery-dl makes a file while the tree is being removed. Nothing
\* terminates the subprocess.
CancelPost ==
    /\ hpc \in {"download_post", "fixing"}
    /\ hpc' = "cancelled"
    /\ \/ post_tmpdir' = FALSE
       \/ "gallery-dl" \in procs /\ post_tmpdir' = TRUE
    /\ error' = Exc("CancelledError", "")
    /\ UNCHANGED <<status, progress, replies, files, caption, content, payload, media, sent,
                   admin, too_large, procs, fixes, probes>>
    /\ UNCHANGED dlvars

\* The subprocess of a cancelled request runs to its end. gallery-dl makes
\* the directory of its next file anew when it is missing; ffmpeg goes on
\* writing to the file it had opened.
OrphanProcessEnds ==
    /\ hpc = "cancelled"
    /\ procs # {}
    /\ procs' = {}
    /\ \/ UNCHANGED post_tmpdir
       \/ "gallery-dl" \in procs /\ post_tmpdir' = TRUE
    /\ UNCHANGED <<hpc, status, progress, replies, files, caption, content, payload, media,
                   sent, admin, error, too_large, fixes, probes>>
    /\ UNCHANGED dlvars

\* The InputMedia list of _send_payload: items with empty data are skipped,
\* the caption goes to the item whose index in content is 0.
RECURSIVE BuildMedia(_, _, _)
BuildMedia(items, idx, cap) ==
    IF idx >= Len(items) THEN <<>>
    ELSE LET item == items[idx + 1]
             data == B64Decode(item.data)
             rest == BuildMedia(items, idx + 1, cap)
         IN IF data.len = 0 THEN rest
            ELSE <<[kind |-> IF item.type = "image" THEN "photo" ELSE "video",
                    data |-> data,
                    caption |-> IF idx = 0 THEN cap ELSE ""]>> \o rest

\* f"<blockquote expandable>{caption}</blockquote>"
Blockquote(c) == IF c = "" THEN "<blockquote></blockquote>" ELSE "<blockquote>post_text</blockquote>"

\* text_private_handler after download_post_json returned: the progress
\* update, then _send_payload up to its first send.
SendPayload ==
    /\ hpc = "send"
    /\ IF CallbackRaises(status, MSG_SENDING)
       THEN Abort(MSG_SENDING) /\ UNCHANGED media
       ELSE IF payload.tag = "None"
       THEN Raise(Exc("AttributeError", "NoneType.get"), <<MSG_SENDING>>) /\ UNCHANGED media
       ELSE IF payload.content = <<>>
       THEN Raise(Exc("NoMedia", "EMPTY_CONTENT"), <<MSG_SENDING>>) /\ UNCHANGED media
       ELSE LET built == BuildMedia(payload.content, 0, Blockquote(payload.caption))
            IN IF built = <<>>
               THEN Raise(Exc("NoMedia", "NO_VALID_MEDIA"), <<MSG_SENDING>>) /\ UNCHANGED media
               ELSE /\ media' = built
                    /\ progress' = Append(progress, MSG_SENDING)
                    /\ status' = Edited(status, MSG_SENDING)
                    /\ hpc' = "sending"
                    /\ UNCHANGED <<admin, error, post_tmpdir>>
    /\ UNCHANGED <<replies, files, caption, content, payload, sent, too_large, procs,
                   fixes, probes>>
    /\ UNCHANGED dlvars

\* _chunk handing the whole list out as one piece.
ChunkWhole(lst, n) == <<lst>>

\* _chunk(lst, n)
RECURSIVE Chunk(_, _)
Chunk(lst, n) ==
    IF lst = <<>> THEN <<>>
    ELSE <<Take(lst, n)>> \o Chunk(SubSeq(lst, n + 1, Len(lst)), n)

\* _send_payload returned: delete the status message, log.
Delivered ==
    /\ status' = [status EXCEPT !.exists = FALSE]
    /\ hpc' = "done"
    /\ UNCHANGED <<progress, admin, error, post_tmpdir>>

\* answer_photo / answer_video for a single item.
AnswerSingle ==
    /\ hpc = "sending"
    /\ Len(media) = 1
    /\ \/ /\ sent' = Append(sent, [kind |-> media[1].kind, items |-> media,
                                   caption |-> Blockquote(payload.caption)])
          /\ Delivered
       \/ /\ Raise(Exc("TelegramAPIError", "send"), <<>>)
          /\ UNCHANGED sent
    /\ UNCHANGED <<replies, files, caption, content, payload, media, too_large, procs,
                   fixes, probes>>
    /\ UNCHANGED dlvars

\* answer_media_group for the next chunk.
AnswerMediaGroup ==
    /\ hpc = "sending"
    /\ Len(media) > 1
    /\ LET groups == Chunk(media, MAX_MEDIA_GROUP)
           g == Len(sent) + 1
       IN \/ /\ sent' = Append(sent, [kind |-> "group", items |-> groups[g], caption |-> ""])
             /\ IF g = Len(groups) THEN Delivered
                ELSE UNCHANGED <<status, hpc, progress, admin, error, post_tmpdir>>
          \/ /\ Raise(Exc("TelegramAPIError", "send"), <<>>)
             /\ UNCHANGED sent
    /\ UNCHANGED <<replies, files, caption, content, payload, media, too_large, procs,
                   fixes, probes>>
    /\ UNCHANGED dlvars

Init == DlInit /\ HInit

\* ------------------------------------------------------- the format catalog
\* get_youtube_formats and get_generic_formats on their own, applied to
\* every raw list up to MaxCatalog descriptors: those of the cascade and
\* descriptors with a missing height, missing or empty codec tags, a missing
\* protocol and a protocol spelled in capitals.
CatalogDescriptors ==
    RawDescriptors \cup
    { Fmt("sb0", NoHeight, 0, "none", "avc1", "mhtml"),
      Fmt("233", 720, 0, PyNone, "avc1", "https"),
      Fmt("234", 1080, 0, "mp4a", "", "https"),
      Fmt("600", 240, 0, Absent, Absent, Absent),
      Fmt("231", 480, 0, "mp4a", "avc1", "HLS"),
      Fmt("17", 144, 0, "mp4a", "avc1", Absent) }

CatalogLists == SeqsUpTo(CatalogDescriptors, MaxCatalog)

CatalogInit ==
    /\ pc = "catalog"
    /\ info \in {[resolved |-> TRUE, extractor_key |-> "", formats |-> formats] :
                    formats \in CatalogLists}
    /\ candidates = <<>>
    /\ attempts = <<>>
    /\ tmpdir = FALSE
    /\ tmpfiles = {}
    /\ result = None
    /\ thread = "none"
    /\ fetch_raised = FALSE
    /\ HInit

GetYoutubeFormats ==
    /\ pc = "catalog"
    /\ candidates' = get_youtube_formats(info.formats)
    /\ pc' = "youtube_formats"
    /\ UNCHANGED <<info, attempts, tmpdir, tmpfiles, result, thread, fetch_raised>>
    /\ UNCHANGED hvars

GetGenericFormats ==
    /\ pc = "catalog"
    /\ candidates' = get_generic_formats(info.formats)
    /\ pc' = "generic_formats"
    /\ UNCHANGED <<info, attempts, tmpdir, tmpfiles, result, thread, fetch_raised>>
    /\ UNCHANGED hvars

CatalogNext ==
    \/ GetYoutubeFormats
    \/ GetGenericFormats

CatalogSpec == CatalogInit /\ [][CatalogNext]_vars

\* One request served by VideoDownloader.download.
Next ==
    \/ Download
    \/ ExtractInfoRaises
    \/ ExtractInfo
    \/ DownloadYoutubeTryFormat
    \/ DownloadYoutubeTrySmart
    \/ DownloadGenericTryFormat
    \/ FetchReturns
    \/ Cancel
    \/ OrphanThreadEnds

Spec == Init /\ [][Next]_vars

\* One message served by text_private_handler. The handler never calls the
\* single-video pipeline, whose state stays as constructed.
HandlerNext ==
    \/ TextPrivateHandler
    \/ StatusVanishes
    \/ DownloadPostFails
    \/ DownloadPost
    \/ ProcessFile
    \/ FixVideoReturns
    \/ CancelPost
    \/ OrphanProcessEnds
    \/ SendPayload
    \/ AnswerSingle
    \/ AnswerMediaGroup

HandlerSpec == Init /\ [][HandlerNext]_vars

\* ===================================================== cascade properties
YoutubeRun ==
    pc \in {"youtube", "done"} /\ info.resolved /\ Lower(info.extractor_key) = "youtube"

GenericRun ==
    pc \in {"generic", "done"} /\ info.resolved /\ Lower(info.extractor_key) # "youtube"

HeightRank(a) == IF a.height = 1080 THEN 1 ELSE IF a.height = 720 THEN 2 ELSE 3

TierRank(a) == IF a.kind = "smart" THEN 3 ELSE IF a.hls THEN 2 ELSE 1

\* a comes strictly before b in the order height, sub-tier, rank.
CascadeBefore(a, b) ==
    \/ HeightRank(a) < HeightRank(b)
    \/ HeightRank(a) = HeightRank(b) /\ TierRank(a) < TierRank(b)
    \/ HeightRank(a) = HeightRank(b) /\ TierRank(a) = TierRank(b) /\ a.idx < b.idx

\* Candidates of the same height and transport class ranked above attempt a.
RankedAbove(a) ==
    {c \in 1..(a.idx - 1) :
        candidates[c].height = a.height /\ is_hls(candidates[c]) = a.hls}

\* The first truthy attempt is the last one and its bytes are the result.
FirstSuccessEnds ==
    /\ \A i \in 1..Len(attempts) :
         attempts[i].ok => /\ i = Len(attempts)
                           /\ pc = "done"
                           /\ result.tag = "bytes" /\ result.attempt = i /\ result.len > 0
    /\ (pc = "done" /\ result # Zero) => (attempts # <<>> /\ attempts[Len(attempts)].ok)

\* C1: download_youtube makes its attempts in the order 1080 before 720 and,
\* within a height, non-segmented (ranked) then segmented then the smart
\* fallback; a 720 attempt comes only after the 1080 smart fallback failed;
\* the first attempt with non-empty bytes ends the run with those bytes.
C1_YoutubeOrder ==
    YoutubeRun =>
        /\ \A i, j \in 1..Len(attempts) :
             i < j => CascadeBefore(attempts[i], attempts[j])
        /\ \A j \in 1..Len(attempts) :
             attempts[j].kind = "format" =>
                \A c \in RankedAbove(attempts[j]) :
                    \E i \in 1..(j - 1) : attempts[i].kind = "format" /\ attempts[i].idx = c
        /\ \A j \in 1..Len(attempts) :
             attempts[j].height = 720 =>
                /\ \E i \in 1..(j - 1) :
                     attempts[i].kind = "smart" /\ attempts[i].height = 1080
                /\ \A i \in 1..(j - 1) : ~attempts[i].ok
        /\ FirstSuccessEnds

\* A run that failed through all three sub-tiers at 1080 and succeeded at 720.
C1_Witness ==
    /\ YoutubeRun /\ pc = "done" /\ Truthy(result)
    /\ attempts[Len(attempts)].height = 720
    /\ \E i \in 1..Len(attempts) :
         attempts[i].kind = "format" /\ attempts[i].height = 1080 /\ ~attempts[i].hls
    /\ \E i \in 1..Len(attempts) :
         attempts[i].kind = "format" /\ attempts[i].height = 1080 /\ attempts[i].hls

CountAttempts(Test(_)) == Cardinality({i \in 1..Len(attempts) : Test(attempts[i])})

\* C2: one run of download_youtube makes at most 3 non-segmented, 2 segmented
\* and 1 smart attempt per target height, only at heights 1080 and 720, hence
\* at most 12 attempts, and it returns 0 only within these limits.
C2_YoutubeAttemptBound ==
    YoutubeRun =>
        /\ \A i \in 1..Len(attempts) : attempts[i].height \in {1080, 720}
        /\ \A h \in {1080, 720} :
             LET NonHlsAt(a) == a.kind = "format" /\ a.height = h /\ ~a.hls
                 HlsAt(a) == a.kind = "format" /\ a.height = h /\ a.hls
                 SmartAt(a) == a.kind = "smart" /\ a.height = h
             IN /\ CountAttempts(NonHlsAt) <= 3
                /\ CountAttempts(HlsAt) <= 2
                /\ CountAttempts(SmartAt) <= 1
        /\ Len(attempts) <= 12

\* An exhausted run over a list holding more candidates than every cap: the
\* twelve attempts were made, three, two and one per height.
C2_Witness ==
    /\ YoutubeRun /\ pc = "done" /\ result = Zero
    /\ Len(candidates) > 12
    /\ Len(attempts) = 12
    /\ Cardinality({i \in 1..Len(attempts) :
                      attempts[i].kind = "format" /\ attempts[i].height = 1080 /\ ~attempts[i].hls}) = 3
    /\ Cardinality({i \in 1..Len(attempts) :
                      attempts[i].kind = "format" /\ attempts[i].height = 720 /\ attempts[i].hls}) = 2
    /\ Cardinality({i \in 1..Len(attempts) : attempts[i].kind = "smart"}) = 2

SmartTriedAt(h) ==
    \E i \in 1..Len(attempts) : attempts[i].kind = "smart" /\ attempts[i].height = h

\* C3: for a flagship URL whose metadata-only resolution succeeded, download()
\* returns 0 only after the smart fallback was attempted at 1080 and at 720,
\* also when the flagship filter excluded every rendition.
C3_FailureOnlyAfterSmart ==
    (pc = "done" /\ info.resolved /\ Lower(info.extractor_key) = "youtube" /\ result = Zero)
        => (SmartTriedAt(1080) /\ SmartTriedAt(720))

NonHlsCandidates == {c \in 1..Len(candidates) : ~is_hls(candidates[c])}

HlsCandidates == {c \in 1..Len(candidates) : is_hls(candidates[c])}

\* C4: one run of download_generic makes at most 2 try_format attempts: up to
\* 2 non-segmented ones, segmented ones only when fewer than 2 non-segmented
\* candidates were available and then at most 2 minus that number; the first
\* non-empty result is returned, and 0 when none succeeds.
C4_GenericBudget ==
    GenericRun =>
        LET IsNonHls(a) == ~a.hls
            IsHls(a) == a.hls
        IN /\ Len(attempts) <= 2
           /\ \A i \in 1..Len(attempts) : attempts[i].kind = "format"
           /\ CountAttempts(IsNonHls) <= 2
           /\ CountAttempts(IsHls) > 0 =>
                /\ Cardinality(NonHlsCandidates) < 2
                /\ CountAttempts(IsHls) <= 2 - CountAttempts(IsNonHls)
           /\ FirstSuccessEnds
           /\ (pc = "done" /\ result = Zero) => \A i \in 1..Len(attempts) : ~attempts[i].ok

\* An exhausted generic run: one non-segmented and one segmented attempt
\* although a second segmented candidate was available.
C4_Witness ==
    /\ GenericRun /\ pc = "done" /\ result = Zero
    /\ Len(attempts) = 2 /\ ~attempts[1].hls /\ attempts[2].hls
    /\ Cardinality(HlsCandidates) >= 2

FirstHls == CHOOSE c \in HlsCandidates : \A d \in HlsCandidates : c <= d

\* C5: download_generic attempts no candidate twice and no segmented
\* candidate before a non-segmented one; with exactly one non-segmented
\* candidate whose attempt failed and at least one segmented candidate, the
\* top-ranked segmented candidate is attempted next, so with one candidate of
\* each class both are tried.
C5_GenericNoSkipNoDup ==
    GenericRun =>
        /\ \A i, j \in 1..Len(attempts) :
             i < j => /\ attempts[i].idx # attempts[j].idx
                      /\ ~(attempts[i].hls /\ ~attempts[j].hls)
        /\ (/\ pc = "done"
            /\ Cardinality(NonHlsCandidates) = 1
            /\ HlsCandidates # {}
            /\ attempts # <<>> /\ ~attempts[1].ok)
           => /\ Len(attempts) = 2
              /\ ~attempts[1].hls
              /\ attempts[2].idx = FirstHls
        /\ (pc = "done" /\ result = Zero /\ Len(candidates) = 2
            /\ Cardinality(NonHlsCandidates) = 1)
           => {attempts[i].idx : i \in 1..Len(attempts)} = {1, 2}

\* One candidate of each transport class, both tried, both failed.
C5_Witness ==
    /\ GenericRun /\ pc = "done" /\ result = Zero
    /\ Len(candidates) = 2
    /\ Cardinality(NonHlsCandidates) = 1 /\ Cardinality(HlsCandidates) = 1
    /\ Len(attempts) = 2 /\ attempts[1].idx = 1 /\ attempts[2].idx = 2

\* ===================================================== handler properties
Failed == hpc = "done" /\ error # NoError

LastProgress == progress[Len(progress)]

FailureTexts ==
    {MSG_INAPPROPRIATE, MSG_NO_MEDIA, MSG_TOO_LARGE, MSG_UNSUPPORTED,
     MSG_DOWNLOAD_ERROR, MSG_UNKNOWN}

\* The gallery extraction ended with the Unsupported Source outcome.
GalleryUnsupported == error = Exc("ValueError", "UNABLE_TO_DOWNLOAD")

\* The gallery extraction ended with a No Media outcome.
GalleryNoMedia ==
    error \in {Exc("ValueError", "NO_VIDEO"), Exc("ValueError", "NO_FILES_IN_DIRECTORY")}

GalleryInappropriate == error = Exc("ValueError", "INAPPROPRIATE_CONTENT")

\* The single-video pipeline (download_video_bytes) was started.
VideoPipelineStarted == pc # "idle"

\* C6: after an Unsupported Source or No Media failure of the gallery
\* extraction the single-video pipeline is run once for the same URL, with a
\* progress update before it; after any other failure it is not run.
C6_FallbackToVideoPipeline ==
    Failed =>
        IF GalleryUnsupported \/ GalleryNoMedia
        THEN /\ VideoPipelineStarted
             /\ Len(progress) >= 2 /\ progress[2] \notin FailureTexts
        ELSE ~VideoPipelineStarted

\* C7: a gallery failure whose output contains "inappropriate" ends with the
\* Inappropriate Content status string, without a retry on the other
\* pipeline and with exactly one operator notification.
C7_InappropriateClassified ==
    (Failed /\ GalleryInappropriate) =>
        /\ LastProgress = MSG_INAPPROPRIATE
        /\ ~VideoPipelineStarted
        /\ Len(admin) = 1

\* C8: a failed request ends with the status string of its own failure kind;
\* a file above the size ceiling, before or after re-encoding, ends with the
\* Oversized string.
C8_StatusOfOwnKind ==
    Failed =>
        /\ too_large => LastProgress = MSG_TOO_LARGE
        /\ GalleryInappropriate => LastProgress = MSG_INAPPROPRIATE
        /\ GalleryNoMedia => LastProgress = MSG_NO_MEDIA
        /\ GalleryUnsupported => LastProgress = MSG_UNSUPPORTED
        /\ error.type = "NoMedia" => LastProgress = MSG_NO_MEDIA

RECURSIVE CountItems(_)
CountItems(messages) ==
    IF messages = <<>> THEN 0 ELSE Len(Head(messages).items) + CountItems(Tail(messages))

SentItems == CountItems(sent)

NonEmptyItems == {i \in 1..Len(content) : B64Decode(content[i].data).len > 0}

\* C9: a delivered payload holds one item per non-empty surviving media file,
\* and when no file survives (no media file written, or only zero-length
\* data) the request ends in the No Media Found failure, never in a delivery.
C9_ItemsOrNoMedia ==
    hpc = "done" =>
        /\ (error = NoError /\ sent # <<>>) =>
              (SentItems = Cardinality(NonEmptyItems) /\ SentItems > 0)
        /\ (\/ error = Exc("ValueError", "NO_FILES_IN_DIRECTORY")
            \/ (payload.tag = "dict" /\ NonEmptyItems = {}))
           => (sent = <<>> /\ Failed /\ LastProgress = MSG_NO_MEDIA)

\* C10: no bytes handed on for delivery come from a file larger than
\* 50 x 1,048,576 bytes: neither the result of try_format or
\* try_smart_download nor a content item of download_post_json, fetched or
\* re-encoded.
C10_CeilingRespected ==
    /\ result.len <= MAX_SIZE_MB * MiB
    /\ \A i \in 1..Len(content) : B64Decode(content[i].data).len <= MAX_SIZE_MB * MiB

\* ---------------------------------------------------------------- C11
\* The next call of the cascade is try_format on a candidate whose declared
\* or estimated size is above the ceiling.
TryFormatOnOversize ==
    /\ pc \in {"youtube", "generic"}
    /\ Len(attempts) < Len(Plan)
    /\ LET a == Plan[Len(attempts) + 1]
       IN /\ a.kind = "format"
          /\ candidates[a.idx].filesize > MAX_SIZE_MB * MiB

\* C11: try_format on a candidate whose declared or estimated size is above
\* the ceiling answers with the absence signal, starts no tool run, and
\* leaves the workspace and its files as they were (the directory goes only
\* when that answer is also the end of download()).
C11_FastFailNoSideEffect ==
    [][TryFormatOnOversize =>
         /\ pc' # "fetching"
         /\ thread' = "none"
         /\ Len(attempts') = Len(attempts) + 1
         /\ ~attempts'[Len(attempts')].invoked
         /\ ~attempts'[Len(attempts')].ok
         /\ pc' # "done" => tmpdir' = tmpdir /\ tmpfiles' = tmpfiles
         /\ pc' = "done" => result' = Zero]_vars

\* A file of an earlier attempt is still in the workspace after try_format
\* has answered an oversize candidate without a tool run.
C11_Witness ==
    /\ pc \in {"youtube", "generic"}
    /\ attempts # <<>>
    /\ attempts[Len(attempts)].kind = "format"
    /\ ~attempts[Len(attempts)].invoked
    /\ candidates[attempts[Len(attempts)].idx].filesize > MAX_SIZE_MB * MiB
    /\ tmpfiles # {}

\* ---------------------------------------------------------------- C12
\* C12: when the worker thread of a fetch is done, an exception of the tool
\* gives a failed attempt and nothing else: download() returns only with
\* the bytes of a successful attempt or with 0 after the last attempt of the
\* cascade order, and otherwise stands before the next attempt of that order.
C12_ToolExceptionAbsorbed ==
    [][(pc = "fetching" /\ pc' # "cancelled") =>
         LET last == attempts'[Len(attempts')]
         IN /\ Len(attempts') = Len(attempts) + 1
            /\ last.invoked
            /\ fetch_raised' => ~last.ok
            /\ pc' = "done" =>
                 \/ last.ok /\ Truthy(result')
                 \/ ~last.ok /\ Len(attempts') = Len(Plan) /\ result' = Zero
            /\ pc' # "done" =>
                 /\ ~last.ok
                 /\ pc' = CascadePc
                 /\ Len(attempts') < Len(Plan)]_vars

\* The tool has raised in an attempt that is not the last of the cascade
\* order, and download() stands before the next attempt.
C12_Witness ==
    /\ fetch_raised
    /\ pc \in {"youtube", "generic"}
    /\ attempts # <<>>
    /\ Len(attempts) < Len(Plan)

\* ---------------------------------------------------------------- C13
\* C13: while a request is in its cascade, a fetch that has begun finds the
\* workspace without any file of an earlier attempt, the files found
\* between attempts all come from one attempt that was made, and clearing
\* a cleared workspace gives the same workspace.
C13_WorkspaceOfOneAttempt ==
    /\ pc = "fetching" => tmpfiles = {}
    /\ pc \in {"youtube", "generic", "fetching"} =>
         /\ \A f, g \in tmpfiles : f.attempt = g.attempt
         /\ \A f \in tmpfiles :
              /\ f.attempt \in 1..Len(attempts)
              /\ attempts[f.attempt].invoked
    /\ clear_tmpdir(clear_tmpdir(tmpfiles)) = clear_tmpdir(tmpfiles)
    /\ clear_tmpdir({}) = {}

\* A fetch has begun after an attempt that ran the tool and failed.
C13_Witness ==
    /\ pc = "fetching"
    /\ tmpfiles = {}
    /\ attempts # <<>>
    /\ attempts[Len(attempts)].invoked
    /\ ~attempts[Len(attempts)].ok
    /\ ~fetch_raised

\* ---------------------------------------------------------------- C14
\* C14: the workspace exists while download() or download_post_json is at
\* work, and once the request has ended, by a return, an exception or a
\* cancellation, its workspace does not exist.
C14_WorkspaceRemovedAtEnd ==
    /\ pc \in {"extracting", "youtube", "generic", "fetching"} => tmpdir
    /\ hpc \in {"download_post", "files", "fixing"} => post_tmpdir
    /\ pc \in {"done", "cancelled"} => ~tmpdir /\ tmpfiles = {}
    /\ hpc \in {"send", "sending", "done", "cancelled"} => ~post_tmpdir

\* ---------------------------------------------------------------- C15
\* C15: once the request has ended, no worker thread and no subprocess
\* started by it is running, and its workspace stays removed.
C15_NoToolOutlivesRequest ==
    /\ pc \in {"done", "cancelled"} => thread = "none" /\ ~tmpdir
    /\ hpc \in {"done", "cancelled"} => procs = {} /\ ~post_tmpdir

\* ---------------------------------------------------------------- C16
\* How often fix_video was called on the file at position k, and where in
\* the log of get_metadata calls a given call stands (0 when it is absent).
FixCalls(k) == Cardinality({i \in 1..Len(fixes) : fixes[i] = k})

ProbeAt(k, fixed) ==
    IF \E i \in 1..Len(probes) : probes[i] = Probe(k, fixed)
    THEN CHOOSE i \in 1..Len(probes) : probes[i] = Probe(k, fixed)
    ELSE 0

ProbeCalls(k, fixed) == Cardinality({i \in 1..Len(probes) : probes[i] = Probe(k, fixed)})

\* C16: fix_video is called only on files that probed with a codec of the
\* denylist; an item made from such a file had exactly one fix_video call,
\* carries the bytes of the re-encoded file, whose size had passed the size
\* test, and the re-encoded file was probed after the original; every other
\* item carries the bytes of the file as fetched and had no fix_video call.
C16_ReencodeOnceThenRecheck ==
    /\ \A i \in 1..Len(fixes) : files[fixes[i]].codec \in CODECS_TO_REFORMAT
    /\ \A k \in 1..Len(files) : FixCalls(k) <= 1
    /\ hpc = "fixing" => fixes # <<>> /\ fixes[Len(fixes)] = Len(content) + 1
    /\ \A k \in 1..Len(content) :
         LET data == B64Decode(content[k].data)
         IN /\ data.file = k
            /\ IF content[k].type = "video" /\ files[k].codec \in CODECS_TO_REFORMAT
               THEN /\ FixCalls(k) = 1
                    /\ data.fixed
                    /\ ~SizeMbExceeds(data.len)
                    /\ ProbeCalls(k, FALSE) = 1 /\ ProbeCalls(k, TRUE) = 1
                    /\ ProbeAt(k, FALSE) < ProbeAt(k, TRUE)
               ELSE /\ FixCalls(k) = 0
                    /\ ~data.fixed
                    /\ data.len = files[k].size
                    /\ ProbeCalls(k, TRUE) = 0

\* A payload that holds a re-encoded video next to a video that needed no
\* re-encode.
C16_Witness ==
    /\ payload.tag = "dict"
    /\ \E k \in 1..Len(payload.content) :
         /\ B64Decode(payload.content[k].data).fixed
         /\ files[k].codec \in CODECS_TO_REFORMAT
         /\ FixCalls(k) = 1
    /\ \E k \in 1..Len(payload.content) :
         /\ payload.content[k].type = "video"
         /\ ~B64Decode(payload.content[k].data).fixed

\* ---------------------------------------------------------------- C17
\* The strings handed to progress_callback by a request that has come as
\* far as this one, whatever became of the status message.
Repeat(x, n) == [i \in 1..n |-> x]

SendPayloadEntered == hpc = "sending" \/ (hpc = "done" /\ payload.tag # "unset")

ExceptionHandled == error # NoError /\ error.type # "CancelledError"

MilestonesDue ==
    IF hpc = "idle" \/ replies # <<>> THEN <<>>
    ELSE <<MSG_LOADING>>
         \o Repeat(MSG_PROCESSING, Len(fixes))
         \o (IF SendPayloadEntered THEN <<MSG_SENDING>> ELSE <<>>)
         \o (IF ExceptionHandled THEN <<ExceptClause(error).text>> ELSE <<>>)

\* C17: no request ends with the TelegramBadRequest of a status update, and
\* the updates a request has made are those its download, re-encode and
\* delivery steps call for, with or without a status message to show them.
C17_EditFailureNeverAborts ==
    /\ error.type # "TelegramBadRequest"
    /\ progress = MilestonesDue
    /\ hpc \in {"download_post", "files", "fixing", "send", "sending"} => error = NoError

\* The status message went away before the re-encode; the re-encoded video
\* was delivered all the same and no update reached the message.
C17_Witness ==
    /\ hpc = "done"
    /\ error = NoError
    /\ sent # <<>>
    /\ status.text = MSG_LOADING
    /\ progress = <<MSG_LOADING, MSG_PROCESSING, MSG_SENDING>>
    /\ \E k \in 1..Len(payload.content) : B64Decode(payload.content[k].data).fixed

\* ---------------------------------------------------------------- C18
\* A raw descriptor has a resolution: its height is not missing, None or 0.
HasResolution(fmt) == fmt.height # NoHeight /\ fmt.height # 0

FormatIds == {info.formats[i].format_id : i \in 1..Len(info.formats)}

\* How many candidates carry the format id, and how many raw descriptors
\* that pass the test carry it.
CandidatesWithId(id) == Cardinality({i \in 1..Len(candidates) : candidates[i].format_id = id})

RawWithId(id, Test(_)) ==
    Cardinality({i \in 1..Len(info.formats) :
                   info.formats[i].format_id = id /\ Test(info.formats[i])})

\* C18: no candidate of get_youtube_formats or get_generic_formats has a
\* missing, None or zero height, and get_generic_formats yields one
\* candidate, of the same height, for each raw descriptor with a height.
C18_NoUndefinedResolution ==
    /\ pc \in {"youtube_formats", "generic_formats"} =>
         \A i \in 1..Len(candidates) :
            /\ candidates[i].height > 0
            /\ \E j \in 1..Len(info.formats) :
                 /\ info.formats[j].format_id = candidates[i].format_id
                 /\ info.formats[j].height = candidates[i].height
    /\ pc = "generic_formats" =>
         /\ \A id \in FormatIds : CandidatesWithId(id) = RawWithId(id, HasResolution)
         /\ Len(candidates) =
              Cardinality({j \in 1..Len(info.formats) : HasResolution(info.formats[j])})

\* get_generic_formats was given a descriptor without a height, one of
\* height 0 and one with a height, and kept the last only.
C18_Witness ==
    /\ pc = "generic_formats"
    /\ \E i \in 1..Len(info.formats) : info.formats[i].height = NoHeight
    /\ \E i \in 1..Len(info.formats) : info.formats[i].height = 0
    /\ Len(candidates) = 1

\* ---------------------------------------------------------------- C19
RawCodecPresent(codec) == codec \notin {Absent, PyNone, "none", ""}

FlagshipEligible(fmt) ==
    /\ HasResolution(fmt)
    /\ fmt.height <= 1080
    /\ RawCodecPresent(fmt.acodec)
    /\ RawCodecPresent(fmt.vcodec)

\* C19: every candidate of get_youtube_formats has an audio codec, a video
\* codec and a height of at most 1080, and each raw descriptor with a
\* height of at most 1080 and both codecs has its candidate in the output.
C19_FlagshipFilterExact ==
    pc = "youtube_formats" =>
      /\ \A i \in 1..Len(candidates) :
           /\ candidates[i].height <= 1080
           /\ candidates[i].acodec \notin {PyNone, "none", ""}
           /\ candidates[i].vcodec \notin {PyNone, "none", ""}
      /\ \A id \in FormatIds : CandidatesWithId(id) = RawWithId(id, FlagshipEligible)

\* get_youtube_formats kept a descriptor and dropped one for its audio tag
\* and one for its video tag.
C19_Witness ==
    /\ pc = "youtube_formats"
    /\ candidates # <<>>
    /\ \E i \in 1..Len(info.formats) :
         HasResolution(info.formats[i]) /\ ~RawCodecPresent(info.formats[i].acodec)
    /\ \E i \in 1..Len(info.formats) :
         /\ HasResolution(info.formats[i])
         /\ RawCodecPresent(info.formats[i].acodec)
         /\ ~RawCodecPresent(info.formats[i].vcodec)

\* ---------------------------------------------------------------- C20
\* The candidates kept by the loop of the function that was applied, in the
\* order of the raw list.
KeptCandidates == FilterParsed(info.formats, pc = "youtube_formats")

Occurrences(s, x) == Cardinality({i \in 1..Len(s) : s[i] = x})

\* C20: in the output of get_youtube_formats and get_generic_formats a
\* segmented candidate never stands before a non-segmented one, within
\* one transport class a lower candidate never stands before a higher one,
\* and the output holds the kept candidates, each as often as it was kept.
C20_RankingOrder ==
    pc \in {"youtube_formats", "generic_formats"} =>
      /\ \A i, j \in 1..Len(candidates) :
           i < j =>
             /\ is_hls(candidates[i]) => is_hls(candidates[j])
             /\ is_hls(candidates[i]) = is_hls(candidates[j]) =>
                  candidates[i].height >= candidates[j].height
      /\ Len(candidates) = Len(KeptCandidates)
      /\ \A i \in 1..Len(KeptCandidates) :
           Occurrences(candidates, KeptCandidates[i]) =
             Occurrences(KeptCandidates, KeptCandidates[i])

\* The ranking moved a low non-segmented candidate before a higher
\* segmented one and a higher candidate before a lower one of its class.
C20_Witness ==
    /\ pc \in {"youtube_formats", "generic_formats"}
    /\ Len(candidates) = 3
    /\ candidates # KeptCandidates
    /\ ~is_hls(candidates[2]) /\ is_hls(candidates[3])
    /\ candidates[1].height > candidates[2].height
    /\ candidates[2].height < candidates[3].height

\* ---------------------------------------------------------------- C21
\* The positions in content of the files handed out in the messages, in
\* sending order, and the positions of the items with data, in payload order.
RECURSIVE FilesOf(_)
FilesOf(items) ==
    IF items = <<>> THEN <<>> ELSE <<Head(items).data.file>> \o FilesOf(Tail(items))

RECURSIVE SentFiles(_)
SentFiles(messages) ==
    IF messages = <<>> THEN <<>>
    ELSE FilesOf(Head(messages).items) \o SentFiles(Tail(messages))

ValidFiles ==
    LET HasData(i) == B64Decode(payload.content[i].data).len > 0
    IN SelectSeq(Indices(payload.content), HasData)

DeliveredInFull == hpc = "done" /\ error = NoError /\ sent # <<>>

\* C21: one valid item goes out as one single-item message, two or more go
\* out as groups of at most 10 items; what has been sent so far is the
\* beginning of the list of valid items, and after a delivery without
\* failure it is that list: each valid item once, in payload order.
C21_SingleOrBatches ==
    /\ \A m \in 1..Len(sent) :
         /\ Len(sent[m].items) \in 1..MAX_MEDIA_GROUP
         /\ Len(ValidFiles) = 1 => sent[m].kind # "group" /\ Len(sent) = 1
         /\ Len(ValidFiles) >= 2 => sent[m].kind = "group"
         /\ sent[m].kind # "group" => Len(sent[m].items) = 1
    /\ sent # <<>> =>
         /\ Len(SentFiles(sent)) <= Len(ValidFiles)
         /\ SentFiles(sent) = SubSeq(ValidFiles, 1, Len(SentFiles(sent)))
    /\ DeliveredInFull => SentFiles(sent) = ValidFiles

\* Eleven valid items behind a dropped one went out as a group of ten
\* followed by a group of one.
C21_Witness ==
    /\ DeliveredInFull
    /\ Len(sent) = 2
    /\ Len(sent[1].items) = MAX_MEDIA_GROUP
    /\ Len(sent[2].items) = 1
    /\ Len(payload.content) = Len(ValidFiles) + 1

\* ---------------------------------------------------------------- C22
\* How many of the status strings handed to progress_callback report a
\* failure.
FailureStringsShown ==
    Cardinality({i \in 1..Len(progress) : progress[i] \in FailureTexts})

\* C22: a request for a link ends in one of two ways: all valid items were
\* delivered, the status message is gone and no failure string was shown;
\* or nothing was delivered and one failure string was shown.
C22_OneTerminalOutcome ==
    (hpc = "done" /\ progress # <<>>) =>
        \/ /\ error = NoError
           /\ sent # <<>>
           /\ SentFiles(sent) = ValidFiles
           /\ ~status.exists
           /\ FailureStringsShown = 0
        \/ /\ sent = <<>>
           /\ FailureStringsShown = 1

\* ---------------------------------------------------------------- C23
\* The caption the user sees on item i of a message: that of the message for
\* answer_photo / answer_video, that of the InputMedia for a group.
CaptionOn(message, i) ==
    IF message.kind = "group" THEN message.items[i].caption ELSE message.caption

\* C23: once something was sent, the first item of the first message carries
\* the caption and no other item of any message carries one.
C23_CaptionOnFirstDelivered ==
    sent # <<>> =>
        /\ CaptionOn(sent[1], 1) = Blockquote(payload.caption)
        /\ \A m \in 1..Len(sent) : \A i \in 1..Len(sent[m].items) :
             (m # 1 \/ i # 1) => CaptionOn(sent[m], i) = ""

\* ---------------------------------------------------------------- C24
\* No ranked candidate stands at 1080 or at 720.
NoTargetCandidate ==
    \A i \in 1..Len(candidates) : candidates[i].height \notin {1080, 720}

\* C24: in download_youtube every try_format call is for a candidate of
\* height 1080 or 720; with candidates but none of these heights, the calls
\* made are try_smart_download at 1080 and then at 720 and nothing else, both
\* of them when the run ends in failure.
C24_OnlyTargetHeightsByIdentifier ==
    YoutubeRun =>
        /\ \A i \in 1..Len(attempts) :
             attempts[i].kind = "format" =>
                candidates[attempts[i].idx].height \in {1080, 720}
        /\ (candidates # <<>> /\ NoTargetCandidate) =>
             /\ Len(attempts) <= 2
             /\ \A i \in 1..Len(attempts) :
                  /\ attempts[i].kind = "smart"
                  /\ attempts[i].height = (IF i = 1 THEN 1080 ELSE 720)
             /\ (pc = "done" /\ result = Zero) => Len(attempts) = 2

\* A list whose only flagship candidate stands at 480: both smart fallbacks
\* were made, both failed.
C24_Witness ==
    /\ YoutubeRun
    /\ pc = "done" /\ result = Zero
    /\ \E i \in 1..Len(candidates) : candidates[i].height = 480
    /\ NoTargetCandidate
    /\ Len(attempts) = 2
    /\ attempts[1].kind = "smart" /\ attempts[2].kind = "smart"

====
